---- MODULE Spec2Model ----
(***************************************************************************)
(* Model of the tokenizer in src/src/lexer.rs.                             *)
(*                                                                         *)
(* A byte is a one-character string; a byte buffer is a sequence of bytes. *)
(* A byte that cannot be spelled in a string is named by its code: "0x0B"   *)
(* is the vertical tab, "0x60" the backtick, "0x80" the first byte above   *)
(* the ASCII range.                                                        *)
(* Lexer::lex is the dispatch loop: one action per match arm, each action  *)
(* performing the whole sub-scanner it calls.  The variables src, last,    *)
(* tokStart and spans are history variables: the buffer the caller owns,   *)
(* the arm taken by the last iteration, the offset at which it started and *)
(* the source span ([start, start + len)) of every pushed token's lexeme.  *)
(* status is the outcome of lex (Running until it returns, Panic when it    *)
(* unwinds) and error the value carried by an Err outcome.                 *)
(***************************************************************************)
EXTENDS Integers, Sequences, FiniteSets, TLC

VARIABLES src, input, cur_line, cur_col, tokens, status, error, last, tokStart, spans

vars == <<src, input, cur_line, cur_col, tokens, status, error, last, tokStart, spans>>

(***************************************************************************)
(* Bounds.                                                                 *)
(***************************************************************************)
MaxLen == 4

MaxSymLen == 3

MaxPairLen == 2

LiveLen == 3

(***************************************************************************)
(* Byte classes (the match patterns of lexer.rs).                          *)
(***************************************************************************)
LowerCase == {"a", "b", "c", "d", "e", "f", "g", "h", "i", "j", "k", "l", "m",
              "n", "o", "p", "q", "r", "s", "t", "u", "v", "w", "x", "y", "z"}

UpperCase == {"A", "B", "C", "D", "E", "F", "G", "H", "I", "J", "K", "L", "M",
              "N", "O", "P", "Q", "R", "S", "T", "U", "V", "W", "X", "Y", "Z"}

Digits == {"0", "1", "2", "3", "4", "5", "6", "7", "8", "9"}

IsWordStart(ch) == ch \in LowerCase \cup UpperCase \cup {"_"}

IsDigit(ch) == ch \in Digits

\* a number arm that also takes a leading minus sign
IsNumberStartOrMinus(ch) == ch \in Digits \cup {"-"}

\* the pattern of the number arm of lex: b'0'..=b'9'
IsNumberStart(ch) == ch \in Digits

IsWordByte(ch) == ch \in LowerCase \cup UpperCase \cup {"_"} \cup Digits

\* a scan charset without the minus sign
IsNumberByteNoMinus(ch) == ch \in {"e", "E", "."} \cup Digits

IsNumberByte(ch) == ch \in {"-", "e", "E", "."} \cup Digits

\* a whitespace class that, like C's isspace, also takes the vertical tab
IsAsciiWhitespaceWithVT(ch) == ch \in {" ", "\t", "\n", "\f", "\r", "0x0B"}

\* a whitespace class without form feed
IsAsciiWhitespaceNoFF(ch) == ch \in {" ", "\t", "\n", "\r"}

\* u8::is_ascii_whitespace: space, tab, line feed, form feed, carriage return
IsAsciiWhitespace(ch) == ch \in {" ", "\t", "\n", "\f", "\r"}

(***************************************************************************)
(* Cursor primitives.                                                      *)
(***************************************************************************)
\* a cursor that drops one byte too many
AdvanceOneMore(in, by) == SubSeq(in, by + 2, Len(in))

Advance(in, by) == SubSeq(in, by + 1, Len(in))

\* Option<u8>: the byte, or "None"
Peek(in) == IF Len(in) >= 1 THEN in[1] ELSE "None"

PeekNext(in) == IF Len(in) >= 2 THEN in[2] ELSE "None"

\* lex_word's find_map(..).unwrap_or(len): index of the first byte that is not
\* a word byte, scanning from idx
RECURSIVE WordRunLen(_, _)
WordRunLen(in, idx) ==
    IF idx < Len(in) /\ IsWordByte(in[idx + 1]) THEN WordRunLen(in, idx + 1) ELSE idx

\* lex_number's find_map(..).unwrap_or(len)
RECURSIVE NumberRunLen(_, _)
NumberRunLen(in, idx) ==
    IF idx < Len(in) /\ IsNumberByte(in[idx + 1]) THEN NumberRunLen(in, idx + 1) ELSE idx

NoToken == [pos |-> [line |-> 0, col |-> 0], kind |-> "None", val |-> "None"]

(***************************************************************************)
(* lex_word                                                                *)
(***************************************************************************)
KeywordTable ==
    { <<"Import",   <<"i","m","p","o","r","t">> >>,
      <<"Struct",   <<"s","t","r","u","c","t">> >>,
      <<"Fn",       <<"f","n">> >>,
      <<"Enum",     <<"e","n","u","m">> >>,
      <<"Mod",      <<"m","o","d">> >>,
      <<"Const",    <<"c","o","n","s","t">> >>,
      <<"Let",      <<"l","e","t">> >>,
      <<"If",       <<"i","f">> >>,
      <<"Else",     <<"e","l","s","e">> >>,
      <<"For",      <<"f","o","r">> >>,
      <<"In",       <<"i","n">> >>,
      <<"While",    <<"w","h","i","l","e">> >>,
      <<"Return",   <<"r","e","t","u","r","n">> >>,
      <<"Break",    <<"b","r","e","a","k">> >>,
      <<"Continue", <<"c","o","n","t","i","n","u","e">> >>,
      <<"Print",    <<"p","r","i","n","t">> >> }

\* a lookup that matches a reserved word at the start of the word
WordKindPrefix(word) ==
    IF \E e \in KeywordTable : Len(e[2]) <= Len(word) /\ SubSeq(word, 1, Len(e[2])) = e[2]
    THEN [kind |-> "Keyword",
          val  |-> (CHOOSE e \in KeywordTable :
                        Len(e[2]) <= Len(word) /\ SubSeq(word, 1, Len(e[2])) = e[2])[1]]
    ELSE [kind |-> "Identifier", val |-> word]

\* the match of lex_word: the Kind of a scanned word
WordKind(word) ==
    IF \E e \in KeywordTable : e[2] = word
    THEN [kind |-> "Keyword", val |-> (CHOOSE e \in KeywordTable : e[2] = word)[1]]
    ELSE [kind |-> "Identifier", val |-> word]

LexWord(in, line, col) ==
    LET idx  == WordRunLen(in, 0)
        word == SubSeq(in, 1, idx)
        k    == WordKind(word)
    IN [res      |-> "Ok",
        input    |-> Advance(in, idx),
        cur_line |-> line,
        cur_col  |-> col + idx,
        len      |-> idx,
        token    |-> [pos |-> [line |-> line, col |-> col],
                      kind |-> k.kind, val |-> k.val]]

(***************************************************************************)
(* lex_number                                                              *)
(*                                                                         *)
(* An integer value is a sign and a magnitude, the magnitude a decimal     *)
(* numeral without leading zeros (a sequence of 0..9), so that the 64-bit  *)
(* range is kept exactly.  A floating-point value is the decimal           *)
(* mant * 10^exp with mant a numeral without trailing zeros; binary        *)
(* rounding of f64 is not modelled.                                        *)
(***************************************************************************)
DigitVal(ch) == CHOOSE n \in 0..9 : <<"0", "1", "2", "3", "4", "5", "6", "7", "8", "9">>[n + 1] = ch

ToDigits(s) == [i \in 1..Len(s) |-> DigitVal(s[i])]

\* drop leading zeros, keeping one digit
RECURSIVE Canon(_)
Canon(d) == IF Len(d) > 1 /\ d[1] = 0 THEN Canon(Tail(d)) ELSE IF Len(d) = 0 THEN <<0>> ELSE d

\* a <= b for numerals without leading zeros
BigLeq(a, b) ==
    \/ Len(a) < Len(b)
    \/ /\ Len(a) = Len(b)
       /\ \/ a = b
          \/ \E i \in 1..Len(a) : a[i] < b[i] /\ \A j \in 1..(i - 1) : a[j] = b[j]

\* a bound one short of i64::MAX
I64MaxOneLess == <<9, 2, 2, 3, 3, 7, 2, 0, 3, 6, 8, 5, 4, 7, 7, 5, 8, 0, 6>>

\* i64::MAX = 9223372036854775807
I64Max == <<9, 2, 2, 3, 3, 7, 2, 0, 3, 6, 8, 5, 4, 7, 7, 5, 8, 0, 7>>

\* |i64::MIN| = 9223372036854775808
I64MinMag == <<9, 2, 2, 3, 3, 7, 2, 0, 3, 6, 8, 5, 4, 7, 7, 5, 8, 0, 8>>

NoValue == [neg |-> FALSE, mag |-> <<0>>]

\* str::parse::<i64>: optional sign, one or more decimal digits, in range
ParseI64(s) ==
    LET signed == Len(s) >= 1 /\ s[1] \in {"+", "-"}
        neg    == Len(s) >= 1 /\ s[1] = "-"
        digs   == IF signed THEN Tail(s) ELSE s
    IN IF Len(digs) = 0 \/ \E i \in 1..Len(digs) : ~IsDigit(digs[i])
       THEN [ok |-> FALSE, val |-> NoValue]
       ELSE LET mag == Canon(ToDigits(digs))
            IN IF BigLeq(mag, IF neg THEN I64MinMag ELSE I64Max)
               THEN [ok |-> TRUE, val |-> [neg |-> neg /\ mag # <<0>>, mag |-> mag]]
               ELSE [ok |-> FALSE, val |-> NoValue]

\* number of leading decimal digits of s from offset i
RECURSIVE DigitRun(_, _)
DigitRun(s, i) == IF i < Len(s) /\ IsDigit(s[i + 1]) THEN 1 + DigitRun(s, i + 1) ELSE 0

RECURSIVE ToNat(_)
ToNat(d) == IF Len(d) = 0 THEN 0 ELSE 10 * ToNat(SubSeq(d, 1, Len(d) - 1)) + d[Len(d)]

\* drop trailing zeros of a mantissa, raising the exponent
RECURSIVE NormFloat(_, _)
NormFloat(m, e) ==
    IF m = <<0>> THEN [mant |-> <<0>>, exp |-> 0]
    ELSE IF m[Len(m)] = 0 THEN NormFloat(SubSeq(m, 1, Len(m) - 1), e + 1)
    ELSE [mant |-> m, exp |-> e]

NoFloat == [neg |-> FALSE, mant |-> <<0>>, exp |-> 0]

\* str::parse::<f64> (core::num::dec2flt): [sign] (digits ['.' digits*] | '.' digits)
\* [('e'|'E') [sign] digits], the whole text.  The spellings inf, infinity and
\* nan need letters that lex_number never scans and are left out.
ParseF64(s) ==
    LET signed == Len(s) >= 1 /\ s[1] \in {"+", "-"}
        neg    == Len(s) >= 1 /\ s[1] = "-"
        t      == IF signed THEN Tail(s) ELSE s
        ni     == DigitRun(t, 0)
        dot    == ni < Len(t) /\ t[ni + 1] = "."
        fs     == IF dot THEN ni + 1 ELSE ni
        nf     == IF dot THEN DigitRun(t, fs) ELSE 0
        me     == fs + nf
        hasE   == me < Len(t) /\ t[me + 1] \in {"e", "E"}
        es     == me + 1
        esign  == hasE /\ es < Len(t) /\ t[es + 1] \in {"+", "-"}
        eneg   == hasE /\ es < Len(t) /\ t[es + 1] = "-"
        ds     == IF esign THEN es + 1 ELSE es
        ne     == IF hasE THEN DigitRun(t, ds) ELSE 0
        end    == IF hasE THEN ds + ne ELSE me
        emag   == ToNat(ToDigits(SubSeq(t, ds + 1, ds + ne)))
        expn   == IF eneg THEN 0 - emag ELSE emag
        mant   == Canon(ToDigits(SubSeq(t, 1, ni) \o SubSeq(t, fs + 1, fs + nf)))
        nrm    == NormFloat(mant, expn - nf)
    IN IF Len(t) = 0 \/ ni + nf = 0 \/ (hasE /\ ne = 0) \/ end # Len(t)
       THEN [ok |-> FALSE, val |-> NoFloat]
       ELSE [ok |-> TRUE,
             val |-> [neg |-> neg /\ nrm.mant # <<0>>, mant |-> nrm.mant, exp |-> nrm.exp]]

\* a scanner that gives up when the integer parse fails
LexNumberIntOnly(in, line, col) ==
    LET idx == NumberRunLen(in, 0)
        num == SubSeq(in, 1, idx)
        pi  == ParseI64(num)
        pos == [line |-> line, col |-> col]
    IN [res      |-> IF pi.ok THEN "Ok" ELSE "Err",
        input    |-> Advance(in, idx),
        cur_line |-> line,
        cur_col  |-> col + idx,
        len      |-> idx,
        token    |-> IF pi.ok THEN [pos |-> pos, kind |-> "Int", val |-> pi.val]
                     ELSE NoToken]

LexNumber(in, line, col) ==
    LET idx == NumberRunLen(in, 0)
        num == SubSeq(in, 1, idx)
        pi  == ParseI64(num)
        pf  == ParseF64(num)
        pos == [line |-> line, col |-> col]
    IN [res      |-> IF pi.ok \/ pf.ok THEN "Ok" ELSE "Err",
        input    |-> Advance(in, idx),
        cur_line |-> line,
        cur_col  |-> col + idx,
        len      |-> idx,
        token    |-> IF pi.ok THEN [pos |-> pos, kind |-> "Int", val |-> pi.val]
                     ELSE IF pf.ok THEN [pos |-> pos, kind |-> "Float", val |-> pf.val]
                     ELSE NoToken]

(***************************************************************************)
(* lex_string                                                              *)
(***************************************************************************)
\* an escape set that also takes the character escape backslash-quote
StringEscapesWithQuote == {"\\", "\"", "'", "t", "n", "r"}

StringEscapes == {"\\", "\"", "t", "n", "r"}

\* a scanning loop that never records that an escape was seen
RECURSIVE ScanStringNoFlag(_, _, _, _, _)
ScanStringNoFlag(in, idx, newlines, new_col, escaped) ==
    IF ~(idx < Len(in))
    THEN [res |-> "end", idx |-> idx, newlines |-> newlines, new_col |-> new_col,
          escaped |-> escaped]
    ELSE IF in[idx + 1] = "\""
    THEN [res |-> "break", idx |-> idx, newlines |-> newlines, new_col |-> new_col + 1,
          escaped |-> escaped]
    ELSE IF in[idx + 1] = "\\"
    THEN IF ~(idx + 1 < Len(in))
         THEN [res |-> "panic", idx |-> idx + 1, newlines |-> newlines,
               new_col |-> new_col + 1, escaped |-> escaped]
         ELSE IF in[idx + 2] \in StringEscapes
         THEN ScanStringNoFlag(in, idx + 2, newlines, new_col + 2, escaped)
         ELSE [res |-> "err", idx |-> idx + 1, newlines |-> newlines,
               new_col |-> new_col + 1, escaped |-> escaped]
    ELSE IF in[idx + 1] = "\n"
    THEN ScanStringNoFlag(in, idx + 1, newlines + 1, 0 + 1, escaped)
    ELSE ScanStringNoFlag(in, idx + 1, newlines, new_col + 1, escaped)

\* a scanning loop that does not count the newline byte itself
RECURSIVE ScanStringColZero(_, _, _, _, _)
ScanStringColZero(in, idx, newlines, new_col, escaped) ==
    IF ~(idx < Len(in))
    THEN [res |-> "end", idx |-> idx, newlines |-> newlines, new_col |-> new_col,
          escaped |-> escaped]
    ELSE IF in[idx + 1] = "\""
    THEN [res |-> "break", idx |-> idx, newlines |-> newlines, new_col |-> new_col + 1,
          escaped |-> escaped]
    ELSE IF in[idx + 1] = "\\"
    THEN IF ~(idx + 1 < Len(in))
         THEN [res |-> "panic", idx |-> idx + 1, newlines |-> newlines,
               new_col |-> new_col + 1, escaped |-> escaped]
         ELSE IF in[idx + 2] \in StringEscapes
         THEN ScanStringColZero(in, idx + 2, newlines, new_col + 2, TRUE)
         ELSE [res |-> "err", idx |-> idx + 1, newlines |-> newlines,
               new_col |-> new_col + 1, escaped |-> escaped]
    ELSE IF in[idx + 1] = "\n"
    THEN ScanStringColZero(in, idx + 1, newlines + 1, 0, escaped)
    ELSE ScanStringColZero(in, idx + 1, newlines, new_col + 1, escaped)

\* the scanning loop of lex_string over the input after the opening quote;
\* idx is the 0-based index of the loop.  res is "break" (closing quote found),
\* "end" (loop condition failed), "err" (return Err) or "panic" (self.input[idx]
\* out of bounds right after a backslash).
RECURSIVE ScanString(_, _, _, _, _)
ScanString(in, idx, newlines, new_col, escaped) ==
    IF ~(idx < Len(in))
    THEN [res |-> "end", idx |-> idx, newlines |-> newlines, new_col |-> new_col,
          escaped |-> escaped]
    ELSE IF in[idx + 1] = "\""
    THEN [res |-> "break", idx |-> idx, newlines |-> newlines, new_col |-> new_col + 1,
          escaped |-> escaped]
    ELSE IF in[idx + 1] = "\\"
    THEN IF ~(idx + 1 < Len(in))
         THEN [res |-> "panic", idx |-> idx + 1, newlines |-> newlines,
               new_col |-> new_col + 1, escaped |-> escaped]
         ELSE IF in[idx + 2] \in StringEscapes
         THEN ScanString(in, idx + 2, newlines, new_col + 2, TRUE)
         ELSE [res |-> "err", idx |-> idx + 1, newlines |-> newlines,
               new_col |-> new_col + 1, escaped |-> escaped]
    ELSE IF in[idx + 1] = "\n"
    THEN ScanString(in, idx + 1, newlines + 1, 0 + 1, escaped)
    ELSE ScanString(in, idx + 1, newlines, new_col + 1, escaped)

\* a decoding match that keeps the escape code letter
StringUnescapeRaw(c) ==
    CASE c = "\\" -> "\\"
      [] c = "\"" -> "\""
      [] c = "t"  -> "t"
      [] c = "n"  -> "n"
      [] c = "r"  -> "r"
      [] OTHER    -> "unreachable"

\* the inner match of the decoding pass
StringUnescape(c) ==
    CASE c = "\\" -> "\\"
      [] c = "\"" -> "\""
      [] c = "t"  -> "\t"
      [] c = "n"  -> "\n"
      [] c = "r"  -> "\r"
      [] OTHER    -> "unreachable"

\* the decoding pass (while let Some(c) = chars.next()); panic when unwrap() or
\* unreachable!() is hit
RECURSIVE DecodeString(_)
DecodeString(word) ==
    IF Len(word) = 0 THEN [panic |-> FALSE, s |-> <<>>]
    ELSE IF word[1] = "\\"
    THEN IF Len(word) < 2 \/ StringUnescape(word[2]) = "unreachable"
         THEN [panic |-> TRUE, s |-> <<>>]
         ELSE LET r == DecodeString(SubSeq(word, 3, Len(word)))
              IN [panic |-> r.panic, s |-> <<StringUnescape(word[2])>> \o r.s]
    ELSE LET r == DecodeString(Tail(word))
         IN [panic |-> r.panic, s |-> <<word[1]>> \o r.s]

LexString(in, line, col) ==
    LET in1  == Advance(in, 1)
        sc   == ScanString(in1, 0, 0, col + 1, FALSE)
        word == SubSeq(in1, 1, sc.idx)
        dec  == DecodeString(word)
        pos  == [line |-> line, col |-> col]
        fail(r) == [res |-> r, input |-> in1, cur_line |-> line, cur_col |-> col,
                    len |-> 0, token |-> NoToken]
    IN IF sc.res \in {"err", "panic"} THEN fail(IF sc.res = "err" THEN "Err" ELSE "Panic")
       ELSE IF sc.idx = Len(in1) THEN fail("Err")
       ELSE IF sc.escaped /\ dec.panic
       THEN [res |-> "Panic", input |-> Advance(in1, sc.idx + 1), cur_line |-> line + sc.newlines,
             cur_col |-> sc.new_col, len |-> 0, token |-> NoToken]
       ELSE [res      |-> "Ok",
             input    |-> Advance(in1, sc.idx + 1),
             cur_line |-> line + sc.newlines,
             cur_col  |-> sc.new_col,
             len      |-> sc.idx + 2,
             token    |-> [pos |-> pos, kind |-> "String",
                           val |-> IF ~sc.escaped
                                   THEN [cow |-> "Borrowed", text |-> word]
                                   ELSE [cow |-> "Owned", text |-> dec.s]]]

(***************************************************************************)
(* lex_character                                                           *)
(***************************************************************************)
\* a match that also takes the string escape backslash-doublequote
CharUnescapeLenient(c) ==
    CASE c = "'"  -> "'"
      [] c = "\\" -> "\\"
      [] c = "\"" -> "\""
      [] c = "t"  -> "\t"
      [] c = "n"  -> "\n"
      [] c = "r"  -> "\r"
      [] OTHER    -> "Err"

\* the match on the byte after the backslash; "Err" is the arm `_ => return Err`
CharUnescape(c) ==
    CASE c = "'"  -> "'"
      [] c = "\\" -> "\\"
      [] c = "t"  -> "\t"
      [] c = "n"  -> "\n"
      [] c = "r"  -> "\r"
      [] OTHER    -> "Err"

\* a character scanner that does not insist on the closing quote
LexCharacterNoClose(in, line, col) ==
    LET pos  == [line |-> line, col |-> col]
        in1  == Advance(in, 1)
        col1 == col + 3
        esc  == Peek(in1) = "\\"
        in2  == IF esc THEN Advance(in1, 1) ELSE in1
        col2 == IF esc THEN col1 + 1 ELSE col1
        character == IF esc THEN CharUnescape(Peek(in2)) ELSE Peek(in2)
        in3  == Advance(in2, 1)
        fail(i) == [res |-> "Err", input |-> i, cur_line |-> line, cur_col |-> col2,
                    len |-> 0, token |-> NoToken]
    IN IF esc /\ character = "Err" THEN fail(in2)
       ELSE IF ~esc /\ character = "None" THEN fail(in2)
       ELSE [res      |-> "Ok",
             input    |-> IF Peek(in3) = "'" THEN Advance(in3, 1) ELSE in3,
             cur_line |-> line,
             cur_col  |-> col2,
             len      |-> IF esc THEN 4 ELSE 3,
             token    |-> [pos |-> pos, kind |-> "Char", val |-> character]]

LexCharacter(in, line, col) ==
    LET pos  == [line |-> line, col |-> col]
        in1  == Advance(in, 1)
        col1 == col + 3
        esc  == Peek(in1) = "\\"
        in2  == IF esc THEN Advance(in1, 1) ELSE in1
        col2 == IF esc THEN col1 + 1 ELSE col1
        character == IF esc THEN CharUnescape(Peek(in2)) ELSE Peek(in2)
        in3  == Advance(in2, 1)
        fail(i) == [res |-> "Err", input |-> i, cur_line |-> line, cur_col |-> col2,
                    len |-> 0, token |-> NoToken]
    IN IF esc /\ character = "Err" THEN fail(in2)
       ELSE IF ~esc /\ character = "None" THEN fail(in2)
       ELSE IF Peek(in3) # "'" THEN fail(in3)
       ELSE [res      |-> "Ok",
             input    |-> Advance(in3, 1),
             cur_line |-> line,
             cur_col  |-> col2,
             len      |-> IF esc THEN 4 ELSE 3,
             token    |-> [pos |-> pos, kind |-> "Char", val |-> character]]

(***************************************************************************)
(* try_lex_symbol                                                          *)
(***************************************************************************)
\* enum Symbol with the spelling each variant's comment gives
SymbolText(name) ==
    CASE name = "Colon"              -> <<":">>
      [] name = "DoubleColon"        -> <<":", ":">>
      [] name = "SemiColon"          -> <<";">>
      [] name = "LeftBrace"          -> <<"{">>
      [] name = "RightBrace"         -> <<"}">>
      [] name = "LeftParam"          -> <<"(">>
      [] name = "RightParam"         -> <<")">>
      [] name = "LeftSquareBracket"  -> <<"[">>
      [] name = "RightSquareBracket" -> <<"]">>
      [] name = "Plus"               -> <<"+">>
      [] name = "Minus"              -> <<"-">>
      [] name = "Star"               -> <<"*">>
      [] name = "Slash"              -> <<"/">>
      [] name = "PlusEqual"          -> <<"+", "=">>
      [] name = "MinusEqual"         -> <<"-", "=">>
      [] name = "StarEqual"          -> <<"*", "=">>
      [] name = "SlashEqual"         -> <<"/", "=">>
      [] name = "Pipe"               -> <<"|">>
      [] name = "DoublePipe"         -> <<"|", "|">>
      [] name = "Ampersand"          -> <<"&">>
      [] name = "DoubleAmpersand"    -> <<"&", "&">>
      [] name = "Caret"              -> <<"^">>
      [] name = "CaretEqual"         -> <<"^", "=">>
      [] name = "PipeEqual"          -> <<"|", "=">>
      [] name = "AmpersandEqual"     -> <<"&", "=">>
      [] name = "LessThan"           -> <<"<">>
      [] name = "GreaterThan"        -> <<">">>
      [] name = "LessThanEqual"      -> <<"<", "=">>
      [] name = "GreaterThanEqual"   -> <<">", "=">>
      [] name = "Shr"                -> <<">", ">">>
      [] name = "Shl"                -> <<"<", "<">>
      [] name = "ShrEqual"           -> <<">", ">", "=">>
      [] name = "ShlEqual"           -> <<"<", "<", "=">>
      [] name = "Bang"               -> <<"!">>
      [] name = "BangEqual"          -> <<"!", "=">>
      [] name = "Dot"                -> <<".">>
      [] name = "BackSlash"          -> <<"\\">>
      [] name = "Comma"              -> <<",">>
      [] name = "DoubleEqual"        -> <<"=", "=">>
      [] name = "Equal"              -> <<"=">>
      [] name = "Arrow"              -> <<"-", ">">>
      [] name = "FatArrow"           -> <<"=", ">">>

\* an arm `if let Some(x) = peek_next() { advance(1); cur_col += 1; two } else { one }`
Sym2(in, x, two, one) ==
    IF PeekNext(in) = x THEN [name |-> two, adv |-> 1] ELSE [name |-> one, adv |-> 0]

\* an arm with two alternatives, tried in order
Sym3(in, x, two, y, twoAlt, one) ==
    IF PeekNext(in) = x THEN [name |-> two, adv |-> 1]
    ELSE IF PeekNext(in) = y THEN [name |-> twoAlt, adv |-> 1]
    ELSE [name |-> one, adv |-> 0]

\* shift arms without the second look-ahead
SymShiftNoTriple(in, c, eq, shiftEq, shift, one) ==
    IF PeekNext(in) = "=" THEN [name |-> eq, adv |-> 1]
    ELSE IF PeekNext(in) = c THEN [name |-> shift, adv |-> 1]
    ELSE [name |-> one, adv |-> 0]

\* the arms of b'>' and b'<': eq, then the doubled byte followed by a second
\* look-ahead for '='
SymShift(in, c, eq, shiftEq, shift, one) ==
    IF PeekNext(in) = "=" THEN [name |-> eq, adv |-> 1]
    ELSE IF PeekNext(in) = c
    THEN IF PeekNext(Advance(in, 1)) = "="
         THEN [name |-> shiftEq, adv |-> 2]
         ELSE [name |-> shift, adv |-> 1]
    ELSE [name |-> one, adv |-> 0]

\* the match of try_lex_symbol: the variant and the number of advance(1) calls
\* made inside the arm; name "None" is the arm `_ => return Err`
SymbolMatch(in) ==
    LET ch == in[1]
    IN CASE ch = "["  -> [name |-> "LeftSquareBracket", adv |-> 0]
         [] ch = "]"  -> [name |-> "RightSquareBracket", adv |-> 0]
         [] ch = "("  -> [name |-> "LeftParam", adv |-> 0]
         [] ch = ")"  -> [name |-> "RightParam", adv |-> 0]
         [] ch = "{"  -> [name |-> "LeftBrace", adv |-> 0]
         [] ch = "}"  -> [name |-> "RightBrace", adv |-> 0]
         [] ch = ";"  -> [name |-> "SemiColon", adv |-> 0]
         [] ch = "."  -> [name |-> "Dot", adv |-> 0]
         [] ch = ","  -> [name |-> "Comma", adv |-> 0]
         [] ch = ":"  -> Sym2(in, ":", "DoubleColon", "Colon")
         [] ch = "+"  -> Sym2(in, "=", "PlusEqual", "Plus")
         [] ch = "-"  -> Sym3(in, "=", "MinusEqual", ">", "Arrow", "Minus")
         [] ch = "*"  -> Sym2(in, "=", "StarEqual", "Star")
         [] ch = "/"  -> Sym2(in, "=", "SlashEqual", "Slash")
         [] ch = ">"  -> SymShift(in, ">", "GreaterThanEqual", "ShrEqual", "Shr", "GreaterThan")
         [] ch = "<"  -> SymShift(in, "<", "LessThanEqual", "ShlEqual", "Shl", "LessThan")
         [] ch = "|"  -> Sym3(in, "|", "DoublePipe", "=", "PipeEqual", "Pipe")
         [] ch = "&"  -> Sym3(in, "&", "DoubleAmpersand", "=", "AmpersandEqual", "Ampersand")
         [] ch = "^"  -> Sym2(in, "=", "CaretEqual", "Caret")
         [] ch = "="  -> Sym3(in, "=", "DoubleEqual", ">", "FatArrow", "Equal")
         [] ch = "\\" -> [name |-> "BackSlash", adv |-> 0]
         [] ch = "!"  -> Sym2(in, "=", "BangEqual", "Bang")
         [] OTHER     -> [name |-> "None", adv |-> 0]

\* a symbol scanner without the closing advance(1)
TryLexSymbolNoAdvance(in, line, col) ==
    LET m == SymbolMatch(in)
    IN IF m.name = "None"
       THEN [res |-> "Err", input |-> in, cur_line |-> line, cur_col |-> col,
             len |-> 0, token |-> NoToken]
       ELSE [res      |-> "Ok",
             input    |-> Advance(in, m.adv),
             cur_line |-> line,
             cur_col  |-> col + m.adv + 1,
             len      |-> Len(SymbolText(m.name)),
             token    |-> [pos |-> [line |-> line, col |-> col],
                           kind |-> "Symbol", val |-> m.name]]

\* a symbol scanner that leaves the column of the last byte uncounted
TryLexSymbolNoCol(in, line, col) ==
    LET m == SymbolMatch(in)
    IN IF m.name = "None"
       THEN [res |-> "Err", input |-> in, cur_line |-> line, cur_col |-> col,
             len |-> 0, token |-> NoToken]
       ELSE [res      |-> "Ok",
             input    |-> Advance(Advance(in, m.adv), 1),
             cur_line |-> line,
             cur_col  |-> col + m.adv,
             len      |-> Len(SymbolText(m.name)),
             token    |-> [pos |-> [line |-> line, col |-> col],
                           kind |-> "Symbol", val |-> m.name]]

TryLexSymbol(in, line, col) ==
    LET m == SymbolMatch(in)
    IN IF m.name = "None"
       THEN [res |-> "Err", input |-> in, cur_line |-> line, cur_col |-> col,
             len |-> 0, token |-> NoToken]
       ELSE [res      |-> "Ok",
             input    |-> Advance(Advance(in, m.adv), 1),
             cur_line |-> line,
             cur_col  |-> col + m.adv + 1,
             len      |-> Len(SymbolText(m.name)),
             token    |-> [pos |-> [line |-> line, col |-> col],
                           kind |-> "Symbol", val |-> m.name]]

(***************************************************************************)
(* Input buffers.                                                          *)
(***************************************************************************)
Seqs(A, n) == UNION {[1..k -> A] : k \in 0..n}

\* bytes of every class the dispatcher distinguishes
MixedBytes == {"a", "1", "\"", "'", "\\", "\n", " ", "=", "#"}

WordBytes == {"l", "e", "t", "x", "L", "1", "_", " "}

NumberBytes == {"1", "0", ".", "e", "E", "-", " "}

StringBytes == {"\"", "\\", "a", "t", "n", "\n", "'", "q"}

WhitespaceBytes == {" ", "\t", "\n", "\f", "\r"}

\* every byte try_lex_symbol has an arm for, and two it has none for
SymbolBytes == {"[", "]", "(", ")", "{", "}", ";", ".", ",", ":", "+", "-", "*", "/",
                ">", "<", "|", "&", "^", "=", "\\", "!", "#", "a"}

\* the bytes of the arms that look ahead, one arm of each shape, and bytes that
\* end the look-ahead
LookaheadBytes == {">", "<", "=", "-", "|", "&", ":", "!", ".", "a"}

\* every reserved word alone and with a byte before or after it
KeywordInputs ==
    UNION { { e[2], e[2] \o <<c>>, <<c>> \o e[2] } :
            e \in KeywordTable, c \in {"x", "1", "_", " ", "\n", "="} }

\* bytes that begin no token
OtherBytes == {"#", "@", "$", "%", "?", "~", "0x60", "0x0B", "0x80"}

\* each of them alone, after and before a token, and after whitespace
OtherInputs ==
    UNION { { <<c>>, <<"a", c>>, <<c, "a">>, <<" ", c>>, <<"=", c, "=">>, <<"1", "\n", c>> } :
            c \in OtherBytes }

\* number literals with leading zeros, at the ends of the 64-bit range and past
\* 2^64
NumberInputs ==
    { <<"0", "0", "7">>,
      <<"0">>,
      <<"1", "0", "0", "0", "0", "0", "0", "0", "0", "0", "0">>,
      <<"9","2","2","3","3","7","2","0","3","6","8","5","4","7","7","5","8","0","7">>,
      <<"9","2","2","3","3","7","2","0","3","6","8","5","4","7","7","5","8","0","8">>,
      <<"9","2","2","3","3","7","2","0","3","6","8","5","4","7","7","5","8","0","6">>,
      <<"9","2","2","3","3","7","2","0","3","6","8","5","4","7","7","5","7","9","9">>,
      <<"9","2","2","3","4","0","0","0","0","0","0","0","0","0","0","0","0","0","0">>,
      <<"0","9","2","2","3","3","7","2","0","3","6","8","5","4","7","7","5","8","0","7">>,
      <<"0","9","2","2","3","3","7","2","0","3","6","8","5","4","7","7","5","8","0","8">>,
      <<"1","0","0","0","0","0","0","0","0","0","0","0","0","0","0","0","0","0","0","0">>,
      <<"-","9","2","2","3","3","7","2","0","3","6","8","5","4","7","7","5","8","0","8">>,
      <<"1","8","4","4","6","7","4","4","0","7","3","7","0","9","5","5","1","6","2","1">>,
      <<"-", "5">>,
      <<"1", ".", "5", "0">>,
      <<"1", "e", "1", "0">> }

\* the inputs the specification names in its testable properties
ExampleInputs ==
    { <<"\"", "a", "\\", "t", "b", "\"">>,
      <<"\"", "a", "b", "\"">>,
      <<">", ">", "=">>,
      <<"l", "e", "t", "\n", "x", " ", "=", " ", "1", ";">>,
      <<"\"", "a", "b", "c">>,
      <<"1", "-", "2">>,
      <<"1", ".", ".", "2">>,
      <<"3", "-">>,
      <<"'", "\\", "q", "'">> }

Inputs ==
    Seqs(MixedBytes, MaxLen) \cup Seqs(WordBytes, MaxLen) \cup Seqs(NumberBytes, MaxLen)
        \cup Seqs(StringBytes, MaxLen) \cup Seqs(WhitespaceBytes, MaxLen)
        \cup Seqs(SymbolBytes, MaxPairLen) \cup Seqs(LookaheadBytes, MaxSymLen)
        \cup KeywordInputs \cup OtherInputs \cup NumberInputs
        \cup ExampleInputs

(***************************************************************************)
(* Lexer::new and Lexer::lex                                               *)
(***************************************************************************)
Init ==
    /\ src \in Inputs
    /\ input = src
    /\ cur_line = 1
    /\ cur_col = 1
    /\ tokens = <<>>
    /\ status = "Running"
    /\ error = "None"
    /\ last = "none"
    /\ tokStart = 0
    /\ spans = <<>>

\* offset of the cursor in the source buffer
Offset == Len(src) - Len(input)

\* `pub struct LexError {}`: the one value of the field-less error type
LexError == "LexError"

\* an iteration that pushes whatever the scanner left before looking at its result
ScanPushAlways(arm, r) ==
    /\ input' = r.input
    /\ cur_line' = r.cur_line
    /\ cur_col' = r.cur_col
    /\ status' = IF r.res = "Ok" THEN "Running" ELSE r.res
    /\ error' = IF r.res = "Err" THEN LexError ELSE error
    /\ tokens' = Append(tokens, r.token)
    /\ spans' = Append(spans, [start |-> Offset, len |-> r.len])
    /\ last' = arm
    /\ tokStart' = Offset
    /\ UNCHANGED src

\* `let token = self.scanner()?; self.tokens.push(token);`
Scan(arm, r) ==
    /\ input' = r.input
    /\ cur_line' = r.cur_line
    /\ cur_col' = r.cur_col
    /\ status' = IF r.res = "Ok" THEN "Running" ELSE r.res
    /\ error' = IF r.res = "Err" THEN LexError ELSE error
    /\ tokens' = IF r.res = "Ok" THEN Append(tokens, r.token) ELSE tokens
    /\ spans' = IF r.res = "Ok" THEN Append(spans, [start |-> Offset, len |-> r.len]) ELSE spans
    /\ last' = arm
    /\ tokStart' = Offset
    /\ UNCHANGED src

Word ==
    /\ status = "Running"
    /\ Len(input) > 0
    /\ IsWordStart(Peek(input))
    /\ Scan("word", LexWord(input, cur_line, cur_col))

Number ==
    /\ status = "Running"
    /\ Len(input) > 0
    /\ IsNumberStart(Peek(input))
    /\ Scan("number", LexNumber(input, cur_line, cur_col))

String ==
    /\ status = "Running"
    /\ Len(input) > 0
    /\ Peek(input) = "\""
    /\ Scan("string", LexString(input, cur_line, cur_col))

Character ==
    /\ status = "Running"
    /\ Len(input) > 0
    /\ Peek(input) = "'"
    /\ Scan("character", LexCharacter(input, cur_line, cur_col))

Newline ==
    /\ status = "Running"
    /\ Len(input) > 0
    /\ Peek(input) = "\n"
    /\ cur_line' = cur_line + 1
    /\ cur_col' = 1
    /\ input' = Advance(input, 1)
    /\ last' = "newline"
    /\ tokStart' = Offset
    /\ UNCHANGED <<src, tokens, status, error, spans>>

Whitespace ==
    /\ status = "Running"
    /\ Len(input) > 0
    /\ Peek(input) # "\n"
    /\ IsAsciiWhitespace(Peek(input))
    /\ cur_col' = cur_col + 1
    /\ input' = Advance(input, 1)
    /\ last' = "whitespace"
    /\ tokStart' = Offset
    /\ UNCHANGED <<src, cur_line, tokens, status, error, spans>>

Symbol ==
    /\ status = "Running"
    /\ Len(input) > 0
    /\ ~IsWordStart(Peek(input))
    /\ ~IsNumberStart(Peek(input))
    /\ Peek(input) \notin {"\"", "'", "\n"}
    /\ ~IsAsciiWhitespace(Peek(input))
    /\ Scan("symbol", TryLexSymbol(input, cur_line, cur_col))

\* the loop condition fails: `Ok(())`
Finish ==
    /\ status = "Running"
    /\ Peek(input) = "None"
    /\ status' = "Ok"
    /\ UNCHANGED <<src, input, cur_line, cur_col, tokens, error, last, tokStart, spans>>

\* the whole loop of lex run on the buffer in from the cursor (line, col): the
\* outcome and the tokens pushed
RECURSIVE LexAll(_, _, _, _)
LexAll(in, line, col, toks) ==
    LET ch == Peek(in)
        r  == IF IsWordStart(ch) THEN LexWord(in, line, col)
              ELSE IF IsNumberStart(ch) THEN LexNumber(in, line, col)
              ELSE IF ch = "\"" THEN LexString(in, line, col)
              ELSE IF ch = "'" THEN LexCharacter(in, line, col)
              ELSE TryLexSymbol(in, line, col)
    IN IF ch = "None" THEN [res |-> "Ok", tokens |-> toks]
       ELSE IF ch = "\n" THEN LexAll(Advance(in, 1), line + 1, 1, toks)
       ELSE IF IsAsciiWhitespace(ch) THEN LexAll(Advance(in, 1), line, col + 1, toks)
       ELSE IF r.res = "Ok" THEN LexAll(r.input, r.cur_line, r.cur_col, Append(toks, r.token))
       ELSE [res |-> r.res, tokens |-> toks]

Next == Word \/ Number \/ String \/ Character \/ Newline \/ Whitespace \/ Symbol \/ Finish

Spec == Init /\ [][Next]_vars

\* lex is sequential code: while it has not returned, its next iteration runs
\* started on the buffers of up to LiveLen bytes of every dispatch class
LiveInit ==
    /\ src \in Seqs(MixedBytes, LiveLen)
    /\ input = src
    /\ cur_line = 1
    /\ cur_col = 1
    /\ tokens = <<>>
    /\ status = "Running"
    /\ error = "None"
    /\ last = "none"
    /\ tokStart = 0
    /\ spans = <<>>

FairSpec == LiveInit /\ [][Next]_vars /\ WF_vars(Next)

TypeOK ==
    /\ status \in {"Running", "Ok", "Err", "Panic"}
    /\ error \in {"None", LexError}
    /\ Len(tokens) = Len(spans)
    /\ Offset \in 0..Len(src)

(***************************************************************************)
(* Reference notions used by the properties, stated over the source buffer *)
(* and independent of the scanners above.                                  *)
(***************************************************************************)
\* true 1-based position of the byte at 0-based offset off of src
TruePos(off) ==
    LET nls == {i \in 1..off : src[i] = "\n"}
        lastNl == IF nls = {} THEN 0 ELSE CHOOSE i \in nls : \A j \in nls : j <= i
    IN [line |-> 1 + Cardinality(nls), col |-> off - lastNl + 1]

\* the text of src of length n after offset off
Slice(off, n) == SubSeq(src, off + 1, off + n)

\* n is the length of the maximal run of bytes of class C at offset off
IsMaximalRun(off, n, C) ==
    /\ off + n <= Len(src)
    /\ \A j \in 1..n : src[off + j] \in C
    /\ off + n = Len(src) \/ src[off + n + 1] \notin C

LastTok == tokens[Len(tokens)]

LastSpan == spans[Len(spans)]

\* the last iteration pushed a token whose lexeme starts where the iteration did
PushedAtStart == Len(tokens) >= 1 /\ LastSpan.start = tokStart

PosLess(p, q) == p.line < q.line \/ (p.line = q.line /\ p.col < q.col)

\* C1: every token carries the true line and column of its first byte
C1_TokenPositions ==
    \A i \in 1..Len(tokens) : tokens[i].pos = TruePos(spans[i].start)

\* the reserved words of the language, each with the keyword it denotes
ReservedWords ==
    { <<<<"i","m","p","o","r","t">>, "Import">>, <<<<"s","t","r","u","c","t">>, "Struct">>,
      <<<<"f","n">>, "Fn">>, <<<<"e","n","u","m">>, "Enum">>, <<<<"m","o","d">>, "Mod">>,
      <<<<"c","o","n","s","t">>, "Const">>, <<<<"l","e","t">>, "Let">>, <<<<"i","f">>, "If">>,
      <<<<"e","l","s","e">>, "Else">>, <<<<"f","o","r">>, "For">>, <<<<"i","n">>, "In">>,
      <<<<"w","h","i","l","e">>, "While">>, <<<<"r","e","t","u","r","n">>, "Return">>,
      <<<<"b","r","e","a","k">>, "Break">>, <<<<"c","o","n","t","i","n","u","e">>, "Continue">>,
      <<<<"p","r","i","n","t">>, "Print">> }

WordClass == LowerCase \cup UpperCase \cup Digits \cup {"_"}

WordTokenRight(i) ==
    LET run == Slice(spans[i].start, spans[i].len)
    IN /\ IsMaximalRun(spans[i].start, spans[i].len, WordClass)
       /\ spans[i].len >= 1
       /\ \A w \in ReservedWords :
              (tokens[i].kind = "Keyword" /\ tokens[i].val = w[2]) <=> run = w[1]
       /\ (\A w \in ReservedWords : run # w[1])
              => (tokens[i].kind = "Identifier" /\ tokens[i].val = run)

\* C2: the word scanner never fails and turns the maximal run of word bytes
\* into one token, Keyword(k) exactly when the run is the reserved word k and
\* otherwise Identifier carrying the run
C2_WordScanner ==
    /\ last = "word" =>
          /\ status \in {"Running", "Ok"}
          /\ PushedAtStart
          /\ LastTok.kind \in {"Keyword", "Identifier"}
          /\ Offset = tokStart + LastSpan.len
    /\ \A i \in 1..Len(tokens) :
          tokens[i].kind \in {"Keyword", "Identifier"} => WordTokenRight(i)

C2_Witness ==
    /\ status = "Ok"
    /\ Len(tokens) = 1
    /\ tokens[1].kind = "Identifier"
    /\ tokens[1].val = <<"l", "e", "t", "x">>

\* the operators of the symbol table
Operators ==
    { <<":">>, <<":", ":">>, <<"+">>, <<"+", "=">>, <<"-">>, <<"-", "=">>, <<"-", ">">>,
      <<"*">>, <<"*", "=">>, <<"/">>, <<"/", "=">>,
      <<">">>, <<">", "=">>, <<">", ">">>, <<">", ">", "=">>,
      <<"<">>, <<"<", "=">>, <<"<", "<">>, <<"<", "<", "=">>,
      <<"|">>, <<"|", "|">>, <<"|", "=">>, <<"&">>, <<"&", "&">>, <<"&", "=">>,
      <<"^">>, <<"^", "=">>, <<"=">>, <<"=", "=">>, <<"=", ">">>, <<"!">>, <<"!", "=">>,
      <<"[">>, <<"]">>, <<"(">>, <<")">>, <<"{">>, <<"}">>, <<";">>, <<".">>, <<",">>,
      <<"\\">> }

IsOperatorAt(op, off) == off + Len(op) <= Len(src) /\ Slice(off, Len(op)) = op

\* the longest operator that is a prefix of the source at offset off
LongestOperatorAt(off) ==
    CHOOSE op \in Operators :
        /\ IsOperatorAt(op, off)
        /\ \A o \in Operators : IsOperatorAt(o, off) => Len(o) <= Len(op)

\* C3: the symbol scanner emits the longest operator of the table that is a
\* prefix of the remaining input and consumes exactly its bytes; it fails only
\* on a byte that starts no operator
C3_SymbolLongestMatch ==
    /\ \A i \in 1..Len(tokens) :
          tokens[i].kind = "Symbol" =>
              /\ SymbolText(tokens[i].val) = LongestOperatorAt(spans[i].start)
              /\ spans[i].len = Len(LongestOperatorAt(spans[i].start))
    /\ last = "symbol" =>
          IF \E op \in Operators : IsOperatorAt(op, tokStart)
          THEN /\ status \in {"Running", "Ok"}
               /\ PushedAtStart
               /\ LastTok.kind = "Symbol"
               /\ Offset = tokStart + Len(LongestOperatorAt(tokStart))
          ELSE status = "Err"

C3_Witness ==
    /\ src = <<">", ">", "=">>
    /\ status = "Ok"
    /\ Len(tokens) = 1
    /\ tokens[1].val = "ShrEqual"

\* number of consecutive backslashes of t immediately before index j
RECURSIVE BackslashesBefore(_, _)
BackslashesBefore(t, j) ==
    IF j > 1 /\ t[j - 1] = "\\" THEN 1 + BackslashesBefore(t, j - 1) ELSE 0

\* index j of t holds the backslash that begins an escape pair
BeginsEscape(t, j) == t[j] = "\\" /\ BackslashesBefore(t, j) % 2 = 0

\* index j of t holds the second byte of an escape pair
EndsEscape(t, j) == j > 1 /\ BeginsEscape(t, j - 1)

EscapeValue == [c \in {"\\", "\"", "t", "n", "r"} |->
                   IF c = "t" THEN "\t" ELSE IF c = "n" THEN "\n" ELSE IF c = "r" THEN "\r" ELSE c]

\* t with every escape pair replaced by its decoded character, from index j on
RECURSIVE Unescaped(_, _)
Unescaped(t, j) ==
    IF j > Len(t) THEN <<>>
    ELSE IF EndsEscape(t, j) THEN Unescaped(t, j + 1)
    ELSE IF BeginsEscape(t, j) THEN <<EscapeValue[t[j + 1]]>> \o Unescaped(t, j + 1)
    ELSE <<t[j]>> \o Unescaped(t, j + 1)

EscapePairs(t) == Cardinality({j \in 1..Len(t) : BeginsEscape(t, j)})

\* the source text between the quotes of the string token i
Between(i) == Slice(spans[i].start + 1, spans[i].len - 2)

\* C4: a String token's value is the source text between its quotes with each
\* escape pair replaced by its decoded character and every other byte kept in
\* order; the closing quote is the first unescaped quote after the opening one
C4_StringDecoded ==
    \A i \in 1..Len(tokens) :
        tokens[i].kind = "String" =>
            /\ spans[i].len >= 2
            /\ src[spans[i].start + 1] = "\""
            /\ src[spans[i].start + spans[i].len] = "\""
            /\ \A j \in 1..Len(Between(i)) :
                   Between(i)[j] = "\"" => EndsEscape(Between(i), j)
            /\ ~EndsEscape(Between(i) \o <<"\"">>, Len(Between(i)) + 1)
            /\ tokens[i].val.text = Unescaped(Between(i), 1)
            /\ Len(tokens[i].val.text) = Len(Between(i)) - EscapePairs(Between(i))

C4_Witness ==
    /\ src = <<"\"", "a", "\\", "t", "b", "\"">>
    /\ status = "Ok"
    /\ Len(tokens) = 1
    /\ tokens[1].val.text = <<"a", "\t", "b">>

\* the string literal opened at offset off runs into the end of input: its
\* tail has no unescaped quote and no backslash followed by a byte that is
\* not an escape code
UnterminatedAt(off) ==
    LET t == Slice(off + 1, Len(src) - off - 1)
    IN /\ \A j \in 1..Len(t) : t[j] = "\"" => EndsEscape(t, j)
       /\ \A j \in 1..(Len(t) - 1) : BeginsEscape(t, j) => t[j + 1] \in DOMAIN EscapeValue

\* C5: a string literal that runs into the end of input makes lex return the
\* error result: no success, no String token, no abrupt termination
C5_UnterminatedString ==
    (last = "string" /\ UnterminatedAt(tokStart)) =>
        /\ status = "Err"
        /\ \A i \in 1..Len(tokens) : spans[i].start # tokStart

NumberClass == Digits \cup {".", "e", "E", "-"}

AllDigits(t) == \A i \in 1..Len(t) : t[i] \in Digits

\* digits, digits '.' digits*, or digits* '.' digits
IsMantissa(t) ==
    \/ Len(t) >= 1 /\ AllDigits(t)
    \/ \E k \in 1..Len(t) :
          /\ t[k] = "."
          /\ Len(t) >= 2
          /\ AllDigits(SubSeq(t, 1, k - 1))
          /\ AllDigits(SubSeq(t, k + 1, Len(t)))

\* an optional sign and one or more digits
IsExponent(t) ==
    \/ Len(t) >= 1 /\ AllDigits(t)
    \/ Len(t) >= 2 /\ t[1] \in {"+", "-"} /\ AllDigits(Tail(t))

IsIntegerLiteral(t) == Len(t) >= 1 /\ AllDigits(t)

IsFloatLiteral(t) ==
    \/ IsMantissa(t)
    \/ \E k \in 1..Len(t) :
          /\ t[k] \in {"e", "E"}
          /\ IsMantissa(SubSeq(t, 1, k - 1))
          /\ IsExponent(SubSeq(t, k + 1, Len(t)))

\* value of a numeral, most significant digit first
RECURSIVE Horner(_, _)
Horner(t, acc) == IF Len(t) = 0 THEN acc ELSE Horner(Tail(t), 10 * acc + DigitVal(t[1]))

\* the digits of the numeral t, leading zeros dropped
Numeral(t) ==
    LET nz == {k \in 1..Len(t) : t[k] # "0"}
        first == IF nz = {} THEN Len(t) ELSE CHOOSE k \in nz : \A j \in nz : k <= j
    IN IF Len(t) = 0 THEN <<0>> ELSE [i \in 1..(Len(t) - first + 1) |-> DigitVal(t[first + i - 1])]

Zeros(n) == [i \in 1..n |-> 0]

\* the decimal m * 10^x a float literal denotes: m the digits of the mantissa
\* without the point, x the written exponent less the number of fraction digits
FloatParts(t) ==
    LET es   == {k \in 1..Len(t) : t[k] \in {"e", "E"}}
        ePos == IF es = {} THEN Len(t) + 1 ELSE CHOOSE k \in es : TRUE
        man  == SubSeq(t, 1, ePos - 1)
        ex   == SubSeq(t, ePos + 1, Len(t))
        ds   == {k \in 1..Len(man) : man[k] = "."}
        dPos == IF ds = {} THEN Len(man) + 1 ELSE CHOOSE k \in ds : TRUE
        frac == Len(man) - dPos
        exv  == IF Len(ex) = 0 THEN 0
                ELSE IF ex[1] = "-" THEN 0 - Horner(Tail(ex), 0)
                ELSE IF ex[1] = "+" THEN Horner(Tail(ex), 0)
                ELSE Horner(ex, 0)
    IN [m |-> Numeral(SelectSeq(man, LAMBDA c : c # ".")),
        x |-> exv - (IF frac > 0 THEN frac ELSE 0)]

SameDecimal(v, parts) ==
    IF parts.m = <<0>> THEN v.mant = <<0>> /\ ~v.neg
    ELSE /\ ~v.neg
         /\ v.exp >= parts.x
         /\ v.mant \o Zeros(v.exp - parts.x) = parts.m

NumberTokenRight(i) ==
    LET run == Slice(spans[i].start, spans[i].len)
    IN /\ IsMaximalRun(spans[i].start, spans[i].len, NumberClass)
       /\ IsIntegerLiteral(run) \/ IsFloatLiteral(run)
       /\ tokens[i].kind = "Int" =>
              /\ IsIntegerLiteral(run)
              /\ ~tokens[i].val.neg
              /\ tokens[i].val.mag = Numeral(run)
              /\ Len(run) <= 9 => ToNat(tokens[i].val.mag) = Horner(run, 0)
       /\ tokens[i].kind = "Float" =>
              /\ IsFloatLiteral(run)
              /\ SameDecimal(tokens[i].val, FloatParts(run))

\* C6: the number scanner takes the maximal run of [0-9.eE-] as one lexeme;
\* lex fails exactly when the run is neither an integer nor a floating-point
\* literal, and otherwise pushes one number token for the whole run with the
\* value the run denotes
C6_NumberScanner ==
    /\ \A i \in 1..Len(tokens) :
          tokens[i].kind \in {"Int", "Float"} => NumberTokenRight(i)
    /\ last = "number" =>
          LET n == CHOOSE k \in 0..(Len(src) - tokStart) : IsMaximalRun(tokStart, k, NumberClass)
              run == Slice(tokStart, n)
          IN IF IsIntegerLiteral(run) \/ IsFloatLiteral(run)
             THEN /\ status \in {"Running", "Ok"}
                  /\ PushedAtStart
                  /\ LastTok.kind \in {"Int", "Float"}
                  /\ LastSpan.len = n
                  /\ Offset = tokStart + n
             ELSE /\ status = "Err"
                  /\ \A i \in 1..Len(tokens) : spans[i].start < tokStart

C6_Witness ==
    /\ src = <<"1", "-", "2">>
    /\ last = "number"
    /\ status = "Err"
    /\ tokens = <<>>

\* C7: in a character literal a backslash followed by a byte other than
\* \ ' t n r makes lex fail, and no Char token is pushed for the literal
C7_CharInvalidEscape ==
    (/\ last = "character"
     /\ tokStart + 3 <= Len(src)
     /\ src[tokStart + 2] = "\\"
     /\ src[tokStart + 3] \notin {"\\", "'", "t", "n", "r"}) =>
        /\ status = "Err"
        /\ \A i \in 1..Len(tokens) : spans[i].start # tokStart

C7_Witness ==
    /\ last = "character"
    /\ src = <<"'", "\\", "\"", "'">>
    /\ status = "Err"

WhitespaceClass == {" ", "\t", "\n", "\r", "\f"}

AllWhitespace == \A i \in 1..Len(src) : src[i] \in WhitespaceClass

\* C8: on an input of whitespace bytes only, lex never fails, pushes no token
\* and returns Ok once the input is used up
C8_WhitespaceOnly ==
    AllWhitespace =>
        /\ tokens = <<>>
        /\ status \in {"Running", "Ok"}
        /\ last \in {"none", "newline", "whitespace"}
        /\ status = "Ok" => input = <<>>
        /\ (status = "Running" /\ input = <<>>) => ENABLED Finish

C8_Witness ==
    /\ AllWhitespace
    /\ Len(src) >= 3
    /\ \E i \in 1..Len(src) : src[i] = "\f"
    /\ \E i \in 1..Len(src) : src[i] = "\n"
    /\ status = "Ok"
    /\ tokens = <<>>

\* C9: consecutive tokens are strictly ascending by reported position and
\* stand in the order of their lexemes in the source
C9_TokensAscending ==
    \A i \in 1..(Len(tokens) - 1) :
        /\ PosLess(tokens[i].pos, tokens[i + 1].pos)
        /\ spans[i].start + spans[i].len <= spans[i + 1].start

C9_Witness ==
    /\ Len(tokens) >= 3
    /\ tokens[1].pos.line < tokens[2].pos.line
    /\ tokens[2].pos.line = tokens[3].pos.line

\* number of tokens whose lexeme holds the byte at index p of src
Covering(p) ==
    Cardinality({i \in 1..Len(spans) : spans[i].start < p /\ p <= spans[i].start + spans[i].len})

\* C10: when lex succeeds every byte of the input lies in exactly one token's
\* lexeme or is a whitespace byte in no lexeme, and the lexemes are exactly
\* the bytes the scanners consumed
C10_SpansPartition ==
    status = "Ok" =>
        /\ \A p \in 1..Len(src) :
              \/ Covering(p) = 1
              \/ Covering(p) = 0 /\ src[p] \in WhitespaceClass
        /\ \A i \in 1..Len(spans) :
              /\ spans[i].len >= 1
              /\ spans[i].start + spans[i].len <= Len(src)

C10_Witness ==
    /\ status = "Ok"
    /\ Len(tokens) >= 2
    /\ \E p \in 1..Len(src) : Covering(p) = 0
    /\ \E i \in 1..Len(tokens) : tokens[i].kind = "String"

\* C11: lex ends in Ok or Err on every input and never terminates abruptly
C11_NoAbruptTermination == status \in {"Running", "Ok", "Err"}

\* C12: lexing is fail-fast: the step that fails pushes nothing, no step
\* follows it, and the token list is then the one lex produces, successfully,
\* on the part of the input before the malformed token
C12_FailFast ==
    /\ [](status = "Err" =>
            /\ error = LexError
            /\ LexAll(SubSeq(src, 1, tokStart), 1, 1, <<>>) = [res |-> "Ok", tokens |-> tokens]
            /\ \A i \in 1..Len(spans) : spans[i].start + spans[i].len <= tokStart)
    /\ [][/\ status = "Running"
          /\ status' = "Err" => (tokens' = tokens /\ spans' = spans /\ tokStart' = Offset)]_vars

C12_Witness ==
    /\ status = "Err"
    /\ Len(tokens) >= 2
    /\ tokStart + 2 <= Len(src)

\* C13: a String token borrows the source text between its quotes exactly when
\* the literal holds no escape pair, and owns a decoded buffer exactly when it
\* holds at least one
C13_BorrowedOrOwned ==
    \A i \in 1..Len(tokens) :
        tokens[i].kind = "String" =>
            /\ tokens[i].val.cow \in {"Borrowed", "Owned"}
            /\ tokens[i].val.cow = "Borrowed" <=> EscapePairs(Between(i)) = 0
            /\ tokens[i].val.cow = "Owned" <=> EscapePairs(Between(i)) >= 1
            /\ tokens[i].val.cow = "Borrowed" => tokens[i].val.text = Between(i)
            /\ tokens[i].val.cow = "Owned" => tokens[i].val.text = Unescaped(Between(i), 1)

C13_Witness ==
    /\ src = <<"\"", "a", "b", "\"">>
    /\ Len(tokens) = 1
    /\ tokens[1].val = [cow |-> "Borrowed", text |-> <<"a", "b">>]

\* the bytes a step consumed
Consumed == SubSeq(input, 1, Len(input) - Len(input'))

\* indices of the newline bytes of t
NewlinesIn(t) == {k \in 1..Len(t) : t[k] = "\n"}

\* the step lexes a string literal successfully
StringLexed == status = "Running" /\ Peek(input) = "\"" /\ status' = "Running"

\* C14: a successfully lexed string literal raises the cursor's line by the
\* number of newline bytes in it; the column becomes 1 + the number of bytes
\* after the last of them (closing quote included), or grows by the literal's
\* whole length when there is none; the token has the opening quote's position
C14_StringCursor ==
    [][StringLexed =>
          LET nls == NewlinesIn(Consumed)
              lastNl == CHOOSE k \in nls : \A j \in nls : j <= k
          IN /\ Len(Consumed) >= 2
             /\ Consumed[Len(Consumed)] = "\""
             /\ cur_line' = cur_line + Cardinality(nls)
             /\ nls # {} => cur_col' = 1 + (Len(Consumed) - lastNl)
             /\ nls = {} => cur_col' = cur_col + Len(Consumed)
             /\ tokens' = Append(tokens, tokens'[Len(tokens')])
             /\ tokens'[Len(tokens')].kind = "String"
             /\ tokens'[Len(tokens')].pos = [line |-> cur_line, col |-> cur_col]
             /\ spans'[Len(spans')] = [start |-> Offset, len |-> Len(Consumed)]]_vars

C14_Witness ==
    /\ src = <<"a", "\"", "\n", "\"">>
    /\ last = "string"
    /\ status = "Running"
    /\ tokens[2].pos = [line |-> 1, col |-> 2]
    /\ cur_line = 2
    /\ cur_col = 2

\* C15: every iteration of the loop returns an error or shortens the
\* remaining input by at least one byte, the loop exits with Ok exactly when
\* the remaining input is empty, and so lex always comes to an end
C15_Terminates ==
    /\ [][/\ status = "Running"
          /\ \/ status' = "Err"
             \/ Len(input') < Len(input)
             \/ input = <<>> /\ status' = "Ok"
          /\ status' = "Ok" <=> input = <<>>
          /\ status' = "Running" => Len(input') < Len(input)]_vars
    /\ <>(status # "Running")

C15_Witness ==
    /\ status = "Ok"
    /\ Len(src) = LiveLen
    /\ input = <<>>
    /\ Len(tokens) = 2
    /\ last = "whitespace"

\* index j of t holds a backslash that begins an escape and is followed by a
\* byte that is not one of the five escape codes
BadEscapeAt(t, j) ==
    BeginsEscape(t, j) /\ j < Len(t) /\ t[j + 1] \notin {"\\", "\"", "t", "n", "r"}

\* index j of t holds a quote that is not the second byte of an escape pair
ClosingQuoteAt(t, j) == t[j] = "\"" /\ ~EndsEscape(t, j)

\* the text after the opening quote of the literal the last iteration started on
StringTail == Slice(tokStart + 1, Len(src) - tokStart - 1)

\* C16: inside a string literal a backslash followed by a byte other than
\* \ " t n r makes lex fail, whatever follows; the five escape pairs alone
\* never do
C16_StringEscapes ==
    last = "string" =>
        /\ (\E j \in 1..Len(StringTail) :
               /\ BadEscapeAt(StringTail, j)
               /\ \A k \in 1..(j - 1) : ~ClosingQuoteAt(StringTail, k))
           => (status = "Err" /\ \A i \in 1..Len(spans) : spans[i].start # tokStart)
        /\ (/\ \A j \in 1..Len(StringTail) : ~BadEscapeAt(StringTail, j)
            /\ \E j \in 1..Len(StringTail) : ClosingQuoteAt(StringTail, j))
           => (status \in {"Running", "Ok"} /\ PushedAtStart /\ LastTok.kind = "String")

C16_Witness ==
    /\ src = <<"\"", "\\", "'", "\"">>
    /\ last = "string"
    /\ status = "Err"
    /\ tokens = <<>>

ErrorKinds == {"UnrecognizedCharacter", "InvalidNumber", "UnterminatedString",
               "InvalidEscape", "UnterminatedChar", "UnexpectedEof"}

\* the kind of failure of the character literal at offset off: the input ends
\* before the character or the closing quote, the escape code is unknown, or
\* the closing quote is missing
CharFailureAt(off) ==
    LET t == Slice(off, Len(src) - off)
        esc == Len(t) >= 2 /\ t[2] = "\\"
        close == IF esc THEN 4 ELSE 3
    IN IF Len(t) < 2 \/ (esc /\ Len(t) < 3) THEN "UnexpectedEof"
       ELSE IF esc /\ t[3] \notin {"\\", "'", "t", "n", "r"} THEN "InvalidEscape"
       ELSE IF Len(t) < close THEN "UnexpectedEof"
       ELSE "UnterminatedChar"

\* the kind of failure of the token the last iteration started on
FailureKind ==
    CASE last = "number"    -> "InvalidNumber"
      [] last = "character" -> CharFailureAt(tokStart)
      [] last = "string"    -> IF \E j \in 1..Len(StringTail) : BadEscapeAt(StringTail, j)
                               THEN "InvalidEscape" ELSE "UnterminatedString"
      [] OTHER              -> "UnrecognizedCharacter"

\* C17: the error lex returns tells which of the six kinds of failure occurred
C17_ErrorKinds ==
    status = "Err" => (error \in ErrorKinds /\ error = FailureKind)

\* the bytes that may begin a token or be skipped between tokens
RecognizedStarts ==
    LowerCase \cup UpperCase \cup {"_"} \cup Digits \cup {"\"", "'"} \cup WhitespaceClass
        \cup {op[1] : op \in Operators}

\* C18: a byte at a token boundary that begins no token and is no whitespace
\* makes lex fail in the symbol scanner; it is not consumed, no token is
\* pushed for it, and lex never runs past such a byte outside a token
C18_UnrecognizedCharacter ==
    /\ (last # "none" /\ src[tokStart + 1] \notin RecognizedStarts) =>
          /\ last = "symbol"
          /\ status = "Err"
          /\ Offset = tokStart
          /\ \A i \in 1..Len(spans) : spans[i].start + spans[i].len <= tokStart
    /\ status \in {"Running", "Ok"} =>
          \A p \in 1..Offset : src[p] \notin RecognizedStarts => Covering(p) = 1

C18_Witness ==
    /\ src = <<"1", "\n", "0x0B">>
    /\ last = "symbol"
    /\ status = "Err"
    /\ Len(tokens) = 1
    /\ input = <<"0x0B">>

\* the numeral t (decimal digits only) denotes a value of at most 2^63 - 1 =
\* 92233 7203685 4775807, compared in three groups of digits
FitsI64(t) ==
    LET d  == Numeral(t)
        c  == [i \in 1..Len(d) |-> <<"0", "1", "2", "3", "4", "5", "6", "7", "8", "9">>[d[i] + 1]]
        hi == Horner(SubSeq(c, 1, 5), 0)
        mi == Horner(SubSeq(c, 6, 12), 0)
        lo == Horner(SubSeq(c, 13, 19), 0)
    IN \/ Len(d) < 19
       \/ /\ Len(d) = 19
          /\ \/ hi < 92233
             \/ hi = 92233 /\ mi < 7203685
             \/ hi = 92233 /\ mi = 7203685 /\ lo <= 4775807

\* C19: a run of decimal digits only whose value is at most 2^63 - 1 is lexed
\* as Int with exactly that value, leading zeros ignored, never as Float; a
\* Float token comes only from a run whose integer parse fails
C19_IntegerFirst ==
    /\ \A i \in 1..Len(tokens) :
          LET run == Slice(spans[i].start, spans[i].len)
          IN /\ tokens[i].kind = "Int" =>
                   /\ AllDigits(run) /\ FitsI64(run)
                   /\ tokens[i].val = [neg |-> FALSE, mag |-> Numeral(run)]
             /\ tokens[i].kind = "Float" => ~(AllDigits(run) /\ FitsI64(run))
    /\ last = "number" =>
          LET n == CHOOSE k \in 0..(Len(src) - tokStart) : IsMaximalRun(tokStart, k, NumberClass)
              run == Slice(tokStart, n)
          IN (AllDigits(run) /\ FitsI64(run)) =>
                 /\ status \in {"Running", "Ok"}
                 /\ PushedAtStart
                 /\ LastTok.kind = "Int"
                 /\ LastTok.val.mag = Numeral(run)

C19_Witness ==
    /\ Len(src) = 20
    /\ src[1] = "0"
    /\ status = "Ok"
    /\ Len(tokens) = 1
    /\ tokens[1].kind = "Int"
    /\ tokens[1].val.mag = I64Max

\* the text from the opening quote of the literal the last iteration started on
CharText == Slice(tokStart, Len(src) - tokStart)

\* quote, one byte that is not a backslash, quote
IsPlainChar(t) == Len(t) >= 3 /\ t[2] # "\\" /\ t[3] = "'"

\* quote, backslash, one of \ ' t n r, quote
IsEscapedChar(t) ==
    Len(t) >= 4 /\ t[2] = "\\" /\ t[3] \in {"\\", "'", "t", "n", "r"} /\ t[4] = "'"

CharEscapeValue(c) ==
    IF c = "t" THEN "\t" ELSE IF c = "n" THEN "\n" ELSE IF c = "r" THEN "\r" ELSE c

\* C20: the character scanner accepts exactly quote + one literal byte + quote
\* (3 bytes, the byte is the value) and quote + backslash + one of \ ' t n r +
\* quote (4 bytes, the decoded character is the value), and fails on every
\* other shape
C20_CharacterForms ==
    last = "character" =>
        IF IsPlainChar(CharText)
        THEN /\ status \in {"Running", "Ok"}
             /\ PushedAtStart
             /\ LastTok.kind = "Char" /\ LastTok.val = CharText[2]
             /\ LastSpan.len = 3 /\ Offset = tokStart + 3
        ELSE IF IsEscapedChar(CharText)
        THEN /\ status \in {"Running", "Ok"}
             /\ PushedAtStart
             /\ LastTok.kind = "Char" /\ LastTok.val = CharEscapeValue(CharText[3])
             /\ LastSpan.len = 4 /\ Offset = tokStart + 4
        ELSE /\ status = "Err"
             /\ \A i \in 1..Len(spans) : spans[i].start + spans[i].len <= tokStart

C20_Witness ==
    /\ last = "character"
    /\ src = <<"'", "a", "a", "'">>
    /\ status = "Err"
    /\ tokens = <<>>

\* the symbols the arm of b'-' can give
MinusSymbols == {"Minus", "MinusEqual", "Arrow"}

\* C22: no Int token is negative: every number token starts at a digit, a '-'
\* at a token boundary goes to the symbol scanner and gives Minus, MinusEqual
\* or Arrow, and `-5` lexes as Minus then Int 5
C22_NoNegativeInt ==
    /\ \A i \in 1..Len(tokens) :
          /\ tokens[i].kind = "Int" => ~tokens[i].val.neg
          /\ tokens[i].kind \in {"Int", "Float"} => src[spans[i].start + 1] \in Digits
          /\ src[spans[i].start + 1] = "-" =>
                /\ tokens[i].kind = "Symbol"
                /\ tokens[i].val \in MinusSymbols
    /\ (last # "none" /\ tokStart < Len(src) /\ src[tokStart + 1] = "-") =>
          /\ last = "symbol"
          /\ status \in {"Running", "Ok"}
          /\ PushedAtStart
          /\ LastTok.kind = "Symbol"
          /\ LastTok.val \in MinusSymbols
    /\ (src = <<"-", "5">> /\ status = "Ok") =>
          /\ Len(tokens) = 2
          /\ tokens[1].kind = "Symbol" /\ tokens[1].val = "Minus"
          /\ tokens[2].kind = "Int" /\ tokens[2].val = [neg |-> FALSE, mag |-> <<5>>]

C22_Witness ==
    /\ src = <<"-", "5">>
    /\ status = "Ok"
    /\ Len(tokens) = 2
    /\ tokens[1].val = "Minus"
    /\ tokens[2].kind = "Int"

\* a numeral of decimal digits only whose value is above 2^63 - 1
ExceedsI64(t) == Len(t) >= 1 /\ AllDigits(t) /\ ~FitsI64(t)

\* C23: a run of decimal digits only whose value exceeds 2^63 - 1 is not an
\* error and does not wrap: the scanner succeeds and pushes a non-negative
\* Float token for the whole run
C23_OverflowIsFloat ==
    /\ last = "number" =>
          LET n == CHOOSE k \in 0..(Len(src) - tokStart) : IsMaximalRun(tokStart, k, NumberClass)
              run == Slice(tokStart, n)
          IN ExceedsI64(run) =>
                 /\ status \in {"Running", "Ok"}
                 /\ error = "None"
                 /\ PushedAtStart
                 /\ LastSpan.len = n
                 /\ LastTok.kind = "Float"
                 /\ ~LastTok.val.neg
    /\ \A i \in 1..Len(tokens) :
          ExceedsI64(Slice(spans[i].start, spans[i].len)) => tokens[i].kind = "Float"

C23_Witness ==
    /\ Len(src) = 19
    /\ last = "number"
    /\ status = "Ok"
    /\ Len(tokens) = 1
    /\ tokens[1].kind = "Float"
    /\ tokens[1].val = [neg |-> FALSE, mant |-> I64MinMag, exp |-> 0]

(***************************************************************************)
(* main.rs: fn main and the module `lexer` it declares inline.  `use       *)
(* lexer::Lexer` resolves to that module, whose Lexer has the fields input *)
(* and tokens only; cur_line and cur_col are held at 0, and tokens carry   *)
(* no position.                                                            *)
(***************************************************************************)
MainNoToken == [kind |-> "None", val |-> "None"]

\* main.rs lex_word: the same run and the same match, no position
MainLexWord(in) ==
    LET idx  == WordRunLen(in, 0)
        word == SubSeq(in, 1, idx)
        k    == WordKind(word)
    IN [res   |-> "Ok",
        input |-> Advance(in, idx),
        len   |-> idx,
        token |-> [kind |-> k.kind, val |-> k.val]]

\* main.rs lex_number: the run of - e E . and digits from the first byte, which
\* the dispatcher lets be a digit or '-'
MainLexNumber(in) ==
    LET idx == NumberRunLen(in, 0)
        num == SubSeq(in, 1, idx)
        pi  == ParseI64(num)
        pf  == ParseF64(num)
    IN [res   |-> IF pi.ok \/ pf.ok THEN "Ok" ELSE "Err",
        input |-> Advance(in, idx),
        len   |-> idx,
        token |-> IF pi.ok THEN [kind |-> "Int", val |-> pi.val]
                  ELSE IF pf.ok THEN [kind |-> "Float", val |-> pf.val]
                  ELSE MainNoToken]

\* the scanning loop of main.rs lex_string over the input after the opening
\* quote; res as in ScanString
RECURSIVE MainScanString(_, _, _)
MainScanString(in, idx, escaped) ==
    IF ~(idx < Len(in)) THEN [res |-> "end", idx |-> idx, escaped |-> escaped]
    ELSE IF in[idx + 1] = "\"" THEN [res |-> "break", idx |-> idx, escaped |-> escaped]
    ELSE IF in[idx + 1] = "\\"
    THEN IF ~(idx + 1 < Len(in)) THEN [res |-> "panic", idx |-> idx + 1, escaped |-> escaped]
         ELSE IF in[idx + 2] \in StringEscapes THEN MainScanString(in, idx + 2, TRUE)
         ELSE [res |-> "err", idx |-> idx + 1, escaped |-> escaped]
    ELSE MainScanString(in, idx + 1, escaped)

\* main.rs lex_string: the loop starts at idx = 1, so the first byte after the
\* opening quote is never examined; &self.input[..idx] and &self.input[idx + 1..]
\* panic when the index is past the end, the second on every literal that has no
\* closing quote
MainLexString(in) ==
    LET in1  == Advance(in, 1)
        sc   == MainScanString(in1, 1, FALSE)
        word == SubSeq(in1, 1, sc.idx)
        dec  == DecodeString(word)
        fail(r) == [res |-> r, input |-> in1, len |-> 0, token |-> MainNoToken]
    IN IF sc.res = "err" THEN fail("Err")
       ELSE IF sc.res = "panic" THEN fail("Panic")
       ELSE IF sc.idx > Len(in1) THEN fail("Panic")
       ELSE IF sc.idx + 1 > Len(in1) THEN fail("Panic")
       ELSE IF sc.escaped /\ dec.panic
       THEN [res |-> "Panic", input |-> Advance(in1, sc.idx + 1), len |-> 0,
             token |-> MainNoToken]
       ELSE [res   |-> "Ok",
             input |-> Advance(in1, sc.idx + 1),
             len   |-> sc.idx + 2,
             token |-> [kind |-> "String",
                        val |-> IF ~sc.escaped
                                THEN [cow |-> "Borrowed", text |-> word]
                                ELSE [cow |-> "Owned", text |-> dec.s]]]

\* Lexer::new of main.rs on the contents of the file
MainInit ==
    /\ src \in Inputs
    /\ input = src
    /\ cur_line = 0
    /\ cur_col = 0
    /\ tokens = <<>>
    /\ status = "Running"
    /\ error = "None"
    /\ last = "none"
    /\ tokStart = 0
    /\ spans = <<>>

\* `let token = self.scanner()?; self.tokens.push(token);` in main.rs
MainScan(arm, r) ==
    /\ input' = r.input
    /\ status' = IF r.res = "Ok" THEN "Running" ELSE r.res
    /\ error' = IF r.res = "Err" THEN LexError ELSE error
    /\ tokens' = IF r.res = "Ok" THEN Append(tokens, r.token) ELSE tokens
    /\ spans' = IF r.res = "Ok" THEN Append(spans, [start |-> Offset, len |-> r.len]) ELSE spans
    /\ last' = arm
    /\ tokStart' = Offset
    /\ UNCHANGED <<src, cur_line, cur_col>>

MainWord ==
    /\ status = "Running"
    /\ Len(input) > 0
    /\ IsWordStart(Peek(input))
    /\ MainScan("word", MainLexWord(input))

MainNumber ==
    /\ status = "Running"
    /\ Len(input) > 0
    /\ IsDigit(Peek(input)) \/ Peek(input) = "-"
    /\ MainScan("number", MainLexNumber(input))

MainString ==
    /\ status = "Running"
    /\ Len(input) > 0
    /\ Peek(input) = "\""
    /\ MainScan("string", MainLexString(input))

MainWhitespace ==
    /\ status = "Running"
    /\ Len(input) > 0
    /\ IsAsciiWhitespace(Peek(input))
    /\ input' = Advance(input, 1)
    /\ last' = "whitespace"
    /\ tokStart' = Offset
    /\ UNCHANGED <<src, cur_line, cur_col, tokens, status, error, spans>>

\* the arm `_ => panic!()`
MainOther ==
    /\ status = "Running"
    /\ Len(input) > 0
    /\ ~IsWordStart(Peek(input))
    /\ ~(IsDigit(Peek(input)) \/ Peek(input) = "-")
    /\ Peek(input) # "\""
    /\ ~IsAsciiWhitespace(Peek(input))
    /\ status' = "Panic"
    /\ last' = "other"
    /\ tokStart' = Offset
    /\ UNCHANGED <<src, input, cur_line, cur_col, tokens, error, spans>>

\* the loop condition of main.rs lex fails: `Ok(())`
MainFinish ==
    /\ status = "Running"
    /\ Peek(input) = "None"
    /\ status' = "Ok"
    /\ UNCHANGED <<src, input, cur_line, cur_col, tokens, error, last, tokStart, spans>>

\* `lexer.lex().unwrap()` in main on Err: the process panics
MainUnwrap ==
    /\ status = "Err"
    /\ status' = "Panic"
    /\ last' = "unwrap"
    /\ UNCHANGED <<src, input, cur_line, cur_col, tokens, error, tokStart, spans>>

MainNext ==
    MainWord \/ MainNumber \/ MainString \/ MainWhitespace \/ MainOther \/ MainFinish
        \/ MainUnwrap

MainSpec == MainInit /\ [][MainNext]_vars

Kinds(toks) == [i \in 1..Len(toks) |-> toks[i].kind]

\* the text from the byte the last iteration started on
RestAtStart == SubSeq(src, tokStart + 1, Len(src))

\* C21: the lexer main runs is the full symbol-aware variant: at a symbol byte
\* it pushes a Symbol token, at a byte that begins no token it returns
\* Err(LexError) instead of aborting inside the scan, and when lex is over its
\* outcome and its token kinds are those of Lexer::lex of lexer.rs on the same
\* input
C21_MainRunsFullLexer ==
    /\ (last = "other" /\ SymbolMatch(RestAtStart).name # "None") =>
          /\ status = "Running"
          /\ PushedAtStart
          /\ LastTok.kind = "Symbol"
    /\ (last = "other" /\ RestAtStart[1] \in OtherBytes) =>
          /\ status = "Err"
          /\ error = LexError
    /\ (status \in {"Ok", "Err", "Panic"} /\ last # "unwrap") =>
          LET full == LexAll(src, 1, 1, <<>>)
          IN /\ status = full.res
             /\ Kinds(tokens) = Kinds(full.tokens)

====
